---- MODULE Spec2Model ----
(***************************************************************************)
(* Board simulation of Slide2Heart (src/Game.cpp, src/Game.hpp): the board *)
(* built by the constructor Game::Game, the control flags written by       *)
(* Game::handle_event, and the slide processing and the rotation step of   *)
(* Game::update.                                                           *)
(*                                                                         *)
(* Game::cursor and Game::board_size are glm::uvec2, i.e. pairs of 32-bit  *)
(* unsigned integers.  A coordinate is represented here by the value of    *)
(* its bit pattern read as a two's-complement int, which is also the value *)
(* check_collision and check_objects_hit receive in their int parameters:  *)
(* -1 stands for 0xFFFFFFFF.  Unsigned comparisons are made with ULt.      *)
(***************************************************************************)
EXTENDS Integers, Sequences, FiniteSets, TLC

VARIABLES board_size, board_meshes, board_rotations, wall_indices, star_indices,
          riflector_indices, hole_indices, cursor, star_points, hole_points,
          controls, fired, handled, running

vars == <<board_size, board_meshes, board_rotations, wall_indices, star_indices,
          riflector_indices, hole_indices, cursor, star_points, hole_points,
          controls, fired, handled, running>>

(* ------------------------------ bounds --------------------------------- *)

\* update is not taken when it would bring a coordinate further than this
\* outside the board (the left/lower side is the unsigned wrap-around)
MaxExcursion == 2

\* update is not taken when it would bring a score beyond this magnitude
MaxPoints == 1

\* SpecBoards: the boards whose row y <= MaxRow has its cells x = 1 .. MaxClear
\* drawn as floor, all other draws being those of the program's generator
MaxClear == 4

MaxRow == 1

\* SpecSizes: the boards of 0 .. MaxSide columns and 0 .. MaxSide rows
MaxSide == 3

\* the elapsed times update is called with are 0 .. MaxElapsed (time units)
MaxElapsed == 1

Elapsed == 0 .. MaxElapsed

(* ------------------------- program constants --------------------------- *)

\* Game.hpp:109  the member initialiser glm::uvec2 board_size = glm::uvec2(8,8)
board_size_init == [x |-> 8, y |-> 8]

\* Game.cpp:255 the goal cell, Game.cpp:259 the gummy (collectible) cell
GoalIndex == 39

GummyIndex == 42

\* mutant: the candidate list with the hole and the reflector in the order of
\* their index vectors' tests (rand_idx==4 before rand_idx==3)
meshes_reordered ==
  <<"wall_mesh", "starpoint_mesh", "floor_mesh", "hole_mesh", "riflector_mesh">>

\* Game.cpp:245  the candidate list the generator draws from
meshes == <<"wall_mesh", "starpoint_mesh", "floor_mesh", "riflector_mesh", "hole_mesh">>

\* Game.cpp:241,266  the successive values of mt() % meshes.size() for
\* std::mt19937 mt(0xbead1234), one per cell that is not a fixed cell
MtDraws ==
  << 3, 3, 0, 0, 1, 0, 0, 2, 4, 4, 3, 1, 0, 2, 3, 0, 1, 1, 3, 1, 1, 4, 4, 2,
     2, 3, 0, 2, 4, 4, 0, 2, 0, 4, 0, 1, 3, 3, 3, 1, 2, 4, 1, 4, 2, 2, 4, 4,
     4, 4, 4, 0, 3, 3, 3, 2, 1, 4, 4, 0, 4 >>

(* --------------------------- construction ------------------------------ *)

\* Game.cpp:247  the values i takes in the generation loop, in order
CellIndices(size) == [k \in 1 .. size.x * size.y |-> k - 1]

\* Game.cpp:249-262  the cells that get a fixed mesh and draw nothing from mt
FixedCells == {0, GoalIndex, GummyIndex}

\* Game.cpp:266  rand_idx for cell i: mt is called once for every cell that is
\* not fixed, in index order, so cell i gets the draw whose number DrawNo(i)
\* is the count of non-fixed cells up to and including i
DrawNo(i) == i + 1 - Cardinality({j \in FixedCells : j < i})

rand_idx(i, draws) == draws[DrawNo(i)]

\* Game.cpp:249-270  the mesh emplaced for cell i
MeshOf(i, draws) ==
  IF i = 0 THEN "floor_mesh"
  ELSE IF i = GoalIndex THEN "goal_mesh"
  ELSE IF i = GummyIndex THEN "gummy_mesh"
  ELSE meshes[rand_idx(i, draws) + 1]

\* Game.cpp:272-295  the cells pushed to the index vector of candidate number
\* idx, in the order of the loop
IndicesOf(idx, size, draws) ==
  SelectSeq(CellIndices(size),
            LAMBDA i : i \notin FixedCells /\ rand_idx(i, draws) = idx)

\* Game.hpp:119-125  the flags of the controls struct, as initialised
slide_controls ==
  [slide_left |-> FALSE, slide_right |-> FALSE, slide_up |-> FALSE,
   slide_down |-> FALSE, reset |-> FALSE]

\* the roll flags Game::update reads (Game.cpp:399-408).  The controls struct
\* of src/Game.hpp does not declare them and no code of src/ writes them;
\* they are taken as continuous flags of the same struct, clear at the start
roll_controls ==
  [roll_left |-> FALSE, roll_right |-> FALSE, roll_up |-> FALSE,
   roll_down |-> FALSE]

\* Game.cpp:237-299 with the member initialisers of Game.hpp:20-29,109-125:
\* the Game object when the constructor returns, for the dimensions size.
\* board_rotations gets its storage reserved (Game.cpp:238) but no element:
\* the emplace_back of Game.cpp:270 is commented out
Game(size, draws) ==
  [board_size |-> size,
   board_meshes |-> [k \in DOMAIN CellIndices(size) |->
                       MeshOf(CellIndices(size)[k], draws)],
   board_rotations |-> << >>,
   wall_indices |-> IndicesOf(0, size, draws),
   star_indices |-> IndicesOf(1, size, draws),
   hole_indices |-> IndicesOf(4, size, draws),
   riflector_indices |-> IndicesOf(3, size, draws),
   cursor |-> [x |-> 0, y |-> 0], star_points |-> 0, hole_points |-> 0,
   controls |-> [f \in DOMAIN slide_controls \cup DOMAIN roll_controls |->
                   IF f \in DOMAIN slide_controls THEN slide_controls[f]
                   ELSE roll_controls[f]]]

(* ------------------------------ helpers -------------------------------- *)

\* unsigned comparison a < b of two 32-bit values given by their int readings
ULt(a, b) == IF (a >= 0) = (b >= 0) THEN a < b ELSE a >= 0

\* std::find(v.begin(), v.end(), key) != v.end()
Find(v, key) == \E k \in DOMAIN v : v[k] = key

\* mutant: the key computed with the coordinates swapped
check_collision_swapped(x, y, board_width, board_height, indices) ==
  LET key == x * board_height + y IN Find(indices, key)

\* Game.cpp:358-371
check_collision(x, y, board_width, board_height, indices) ==
  LET key == y * board_width + x IN Find(indices, key)

\* Game.cpp:373-389
check_objects_hit(x, y, board_width, board_height, indices) ==
  LET key == y * board_width + x IN Find(indices, key)

(* ----------------------------- handle_event ---------------------------- *)
(* The operators of this section and the next work on a record g of the    *)
(* members of the Game object, with three notes about the calls made on    *)
(* it: fired gives for each direction the branch of the if/else chain the  *)
(* call took when the last call was update ("none" otherwise), handled is  *)
(* <<b>> when the last call was a handle_event that returned b (empty      *)
(* otherwise), and running says that the process is alive.                 *)

Directions == {"up", "down", "left", "right"}

Branches == {"none", "outside", "wall", "star", "hole", "riflector", "move"}

NoneFired == [d \in Directions |-> "none"]

EventTypes == {"SDL_KEYDOWN", "SDL_KEYUP", "SDL_MOUSEMOTION"}

Scancodes == {"SDL_SCANCODE_R", "SDL_SCANCODE_LEFT", "SDL_SCANCODE_RIGHT",
              "SDL_SCANCODE_UP", "SDL_SCANCODE_DOWN", "SDL_SCANCODE_SPACE"}

\* the events handle_event tells apart: type, key.repeat, key.keysym.scancode
\* (key.repeat is read for key-down events only, key.keysym for key events only)
Events ==
  [type : {"SDL_KEYDOWN"}, repeat : BOOLEAN, scancode : Scancodes]
  \cup [type : {"SDL_KEYUP"}, repeat : {FALSE}, scancode : Scancodes]
  \cup [type : {"SDL_MOUSEMOTION"}, repeat : {FALSE}, scancode : {"SDL_SCANCODE_SPACE"}]

\* mutant: a key-down of R puts the player back at the start at once
handle_event_resetting(g, evt) ==
  LET h == [g EXCEPT !.fired = NoneFired] IN
  IF evt.type = "SDL_KEYDOWN" /\ evt.repeat
    THEN [h EXCEPT !.handled = <<FALSE>>]
  ELSE IF evt.type \in {"SDL_KEYDOWN", "SDL_KEYUP"} /\ evt.scancode = "SDL_SCANCODE_R"
    THEN [h EXCEPT !.controls.reset = (evt.type = "SDL_KEYDOWN"), !.handled = <<TRUE>>,
                   !.cursor = [x |-> 0, y |-> 0], !.star_points = 0,
                   !.hole_points = 0]
  ELSE IF evt.type = "SDL_KEYDOWN" /\ evt.scancode = "SDL_SCANCODE_LEFT"
    THEN [h EXCEPT !.controls.slide_left = (evt.type = "SDL_KEYDOWN"), !.handled = <<TRUE>>]
  ELSE IF evt.type = "SDL_KEYDOWN" /\ evt.scancode = "SDL_SCANCODE_RIGHT"
    THEN [h EXCEPT !.controls.slide_right = (evt.type = "SDL_KEYDOWN"), !.handled = <<TRUE>>]
  ELSE IF evt.type = "SDL_KEYDOWN" /\ evt.scancode = "SDL_SCANCODE_UP"
    THEN [h EXCEPT !.controls.slide_up = (evt.type = "SDL_KEYDOWN"), !.handled = <<TRUE>>]
  ELSE IF evt.type = "SDL_KEYDOWN" /\ evt.scancode = "SDL_SCANCODE_DOWN"
    THEN [h EXCEPT !.controls.slide_down = (evt.type = "SDL_KEYDOWN"), !.handled = <<TRUE>>]
  ELSE [h EXCEPT !.handled = <<FALSE>>]

\* mutant: the arrow keys are level-triggered, a key-up clears the flag
handle_event_held(g, evt) ==
  LET h == [g EXCEPT !.fired = NoneFired] IN
  IF evt.type = "SDL_KEYDOWN" /\ evt.repeat
    THEN [h EXCEPT !.handled = <<FALSE>>]
  ELSE IF evt.type \in {"SDL_KEYDOWN", "SDL_KEYUP"} /\ evt.scancode = "SDL_SCANCODE_R"
    THEN [h EXCEPT !.controls.reset = (evt.type = "SDL_KEYDOWN"), !.handled = <<TRUE>>]
  ELSE IF evt.type \in {"SDL_KEYDOWN", "SDL_KEYUP"} /\ evt.scancode = "SDL_SCANCODE_LEFT"
    THEN [h EXCEPT !.controls.slide_left = (evt.type = "SDL_KEYDOWN"), !.handled = <<TRUE>>]
  ELSE IF evt.type \in {"SDL_KEYDOWN", "SDL_KEYUP"} /\ evt.scancode = "SDL_SCANCODE_RIGHT"
    THEN [h EXCEPT !.controls.slide_right = (evt.type = "SDL_KEYDOWN"), !.handled = <<TRUE>>]
  ELSE IF evt.type \in {"SDL_KEYDOWN", "SDL_KEYUP"} /\ evt.scancode = "SDL_SCANCODE_UP"
    THEN [h EXCEPT !.controls.slide_up = (evt.type = "SDL_KEYDOWN"), !.handled = <<TRUE>>]
  ELSE IF evt.type \in {"SDL_KEYDOWN", "SDL_KEYUP"} /\ evt.scancode = "SDL_SCANCODE_DOWN"
    THEN [h EXCEPT !.controls.slide_down = (evt.type = "SDL_KEYDOWN"), !.handled = <<TRUE>>]
  ELSE [h EXCEPT !.handled = <<FALSE>>]

\* mutant: a key-down of an arrow key toggles its flag
handle_event_toggling(g, evt) ==
  LET h == [g EXCEPT !.fired = NoneFired] IN
  IF evt.type = "SDL_KEYDOWN" /\ evt.repeat
    THEN [h EXCEPT !.handled = <<FALSE>>]
  ELSE IF evt.type \in {"SDL_KEYDOWN", "SDL_KEYUP"} /\ evt.scancode = "SDL_SCANCODE_R"
    THEN [h EXCEPT !.controls.reset = (evt.type = "SDL_KEYDOWN"), !.handled = <<TRUE>>]
  ELSE IF evt.type = "SDL_KEYDOWN" /\ evt.scancode = "SDL_SCANCODE_LEFT"
    THEN [h EXCEPT !.controls.slide_left = ~@, !.handled = <<TRUE>>]
  ELSE IF evt.type = "SDL_KEYDOWN" /\ evt.scancode = "SDL_SCANCODE_RIGHT"
    THEN [h EXCEPT !.controls.slide_right = ~@, !.handled = <<TRUE>>]
  ELSE IF evt.type = "SDL_KEYDOWN" /\ evt.scancode = "SDL_SCANCODE_UP"
    THEN [h EXCEPT !.controls.slide_up = ~@, !.handled = <<TRUE>>]
  ELSE IF evt.type = "SDL_KEYDOWN" /\ evt.scancode = "SDL_SCANCODE_DOWN"
    THEN [h EXCEPT !.controls.slide_down = ~@, !.handled = <<TRUE>>]
  ELSE [h EXCEPT !.handled = <<FALSE>>]

\* Game.cpp:317-355  the Game object after the call; the value returned is
\* noted in handled
handle_event(g, evt) ==
  LET h == [g EXCEPT !.fired = NoneFired] IN
  IF evt.type = "SDL_KEYDOWN" /\ evt.repeat
    THEN [h EXCEPT !.handled = <<FALSE>>]
  ELSE IF evt.type \in {"SDL_KEYDOWN", "SDL_KEYUP"} /\ evt.scancode = "SDL_SCANCODE_R"
    THEN [h EXCEPT !.controls.reset = (evt.type = "SDL_KEYDOWN"), !.handled = <<TRUE>>]
  ELSE IF evt.type = "SDL_KEYDOWN" /\ evt.scancode = "SDL_SCANCODE_LEFT"
    THEN [h EXCEPT !.controls.slide_left = (evt.type = "SDL_KEYDOWN"), !.handled = <<TRUE>>]
  ELSE IF evt.type = "SDL_KEYDOWN" /\ evt.scancode = "SDL_SCANCODE_RIGHT"
    THEN [h EXCEPT !.controls.slide_right = (evt.type = "SDL_KEYDOWN"), !.handled = <<TRUE>>]
  ELSE IF evt.type = "SDL_KEYDOWN" /\ evt.scancode = "SDL_SCANCODE_UP"
    THEN [h EXCEPT !.controls.slide_up = (evt.type = "SDL_KEYDOWN"), !.handled = <<TRUE>>]
  ELSE IF evt.type = "SDL_KEYDOWN" /\ evt.scancode = "SDL_SCANCODE_DOWN"
    THEN [h EXCEPT !.controls.slide_down = (evt.type = "SDL_KEYDOWN"), !.handled = <<TRUE>>]
  ELSE [h EXCEPT !.handled = <<FALSE>>]

(* -------------------------------- update ------------------------------- *)

\* Game.cpp:420 (and 456, 491, 528)  cursor.y = cursor.y
stay(g) == g

\* mutant: the star is entered but not counted
up_star_uncounted(g) == [g EXCEPT !.cursor.y = @ + 1]

\* Game.cpp:425-426
up_star(g) == [g EXCEPT !.cursor.y = @ + 1, !.star_points = @ + 1]

\* mutant: the hole branch of slide_up moves forward like the other directions
up_hole_forward(g) ==
  [g EXCEPT !.cursor.y = @ + 1, !.star_points = @ - 1, !.hole_points = @ + 1]

\* Game.cpp:431-433
up_hole(g) ==
  [g EXCEPT !.cursor.y = @ - 1, !.star_points = @ - 1, !.hole_points = @ + 1]

\* Game.cpp:437-438
up_riflector(g) == [g EXCEPT !.cursor.y = @ + 1, !.cursor.x = @ + 1]

\* Game.cpp:443
up_move(g) == [g EXCEPT !.cursor.y = @ + 1]

\* Game.cpp:447
consume_slide_up(g) == [g EXCEPT !.controls.slide_up = FALSE]

\* mutant: the reflector is tested before the hole
slide_up_riflector_first(g) ==
  IF g.controls.slide_up THEN
    LET c == g.cursor
        bx == g.board_size.x
        by == g.board_size.y
        h == IF ULt(c.y + 1, by) THEN
               IF check_collision(c.x, c.y + 1, bx, by, g.wall_indices)
                 THEN [stay(g) EXCEPT !.fired.up = "wall"]
               ELSE IF check_objects_hit(c.x, c.y + 1, bx, by, g.star_indices)
                 THEN [up_star(g) EXCEPT !.fired.up = "star"]
               ELSE IF check_objects_hit(c.x, c.y + 1, bx, by, g.riflector_indices)
                 THEN [up_riflector(g) EXCEPT !.fired.up = "riflector"]
               ELSE IF check_objects_hit(c.x, c.y - 1, bx, by, g.hole_indices)
                 THEN [up_hole(g) EXCEPT !.fired.up = "hole"]
               ELSE [up_move(g) EXCEPT !.fired.up = "move"]
             ELSE [g EXCEPT !.fired.up = "outside"]
    IN consume_slide_up(h)
  ELSE g

\* Game.cpp:412-448
slide_up(g) ==
  IF g.controls.slide_up THEN
    LET c == g.cursor
        bx == g.board_size.x
        by == g.board_size.y
        h == IF ULt(c.y + 1, by) THEN
               IF check_collision(c.x, c.y + 1, bx, by, g.wall_indices)
                 THEN [stay(g) EXCEPT !.fired.up = "wall"]
               ELSE IF check_objects_hit(c.x, c.y + 1, bx, by, g.star_indices)
                 THEN [up_star(g) EXCEPT !.fired.up = "star"]
               ELSE IF check_objects_hit(c.x, c.y - 1, bx, by, g.hole_indices)
                 THEN [up_hole(g) EXCEPT !.fired.up = "hole"]
               ELSE IF check_objects_hit(c.x, c.y + 1, bx, by, g.riflector_indices)
                 THEN [up_riflector(g) EXCEPT !.fired.up = "riflector"]
               ELSE [up_move(g) EXCEPT !.fired.up = "move"]
             ELSE [g EXCEPT !.fired.up = "outside"]
    IN consume_slide_up(h)
  ELSE g

\* Game.cpp:460-461
down_star(g) == [g EXCEPT !.cursor.y = @ - 1, !.star_points = @ + 1]

\* Game.cpp:465-467
down_hole(g) ==
  [g EXCEPT !.cursor.y = @ - 1, !.star_points = @ - 1, !.hole_points = @ + 1]

\* mutant: the deflection of slide_down mirrors that of slide_up
down_riflector_mirrored(g) == [g EXCEPT !.cursor.y = @ - 1, !.cursor.x = @ - 1]

\* Game.cpp:471-472
down_riflector(g) == [g EXCEPT !.cursor.y = @ - 1, !.cursor.x = @ + 1]

\* Game.cpp:478
down_move(g) == [g EXCEPT !.cursor.y = @ - 1]

\* Game.cpp:482
consume_slide_down(g) == [g EXCEPT !.controls.slide_down = FALSE]

\* Game.cpp:449-483
slide_down(g) ==
  IF g.controls.slide_down THEN
    LET c == g.cursor
        bx == g.board_size.x
        by == g.board_size.y
        h == IF ULt(0, c.y) THEN
               IF check_collision(c.x, c.y - 1, bx, by, g.wall_indices)
                 THEN [stay(g) EXCEPT !.fired.down = "wall"]
               ELSE IF check_objects_hit(c.x, c.y - 1, bx, by, g.star_indices)
                 THEN [down_star(g) EXCEPT !.fired.down = "star"]
               ELSE IF check_objects_hit(c.x, c.y - 1, bx, by, g.hole_indices)
                 THEN [down_hole(g) EXCEPT !.fired.down = "hole"]
               ELSE IF check_objects_hit(c.x, c.y - 1, bx, by, g.riflector_indices)
                 THEN [down_riflector(g) EXCEPT !.fired.down = "riflector"]
               ELSE [down_move(g) EXCEPT !.fired.down = "move"]
             ELSE [g EXCEPT !.fired.down = "outside"]
    IN consume_slide_down(h)
  ELSE g

\* Game.cpp:495-496
left_star(g) == [g EXCEPT !.cursor.x = @ - 1, !.star_points = @ + 1]

\* mutant: the hole takes a star point without counting the hole
left_hole_uncounted(g) == [g EXCEPT !.cursor.x = @ - 1, !.star_points = @ - 1]

\* Game.cpp:500-502
left_hole(g) ==
  [g EXCEPT !.cursor.x = @ - 1, !.star_points = @ - 1, !.hole_points = @ + 1]

\* Game.cpp:506-507
left_riflector(g) == [g EXCEPT !.cursor.y = @ + 1, !.cursor.x = @ - 1]

\* Game.cpp:513
left_move(g) == [g EXCEPT !.cursor.x = @ - 1]

\* mutant: the flag is left set
consume_slide_left_kept(g) == g

\* Game.cpp:518
consume_slide_left(g) == [g EXCEPT !.controls.slide_left = FALSE]

\* Game.cpp:484-520
slide_left(g) ==
  IF g.controls.slide_left THEN
    LET c == g.cursor
        bx == g.board_size.x
        by == g.board_size.y
        h == IF ULt(0, c.x) THEN
               IF check_collision(c.x - 1, c.y, bx, by, g.wall_indices)
                 THEN [stay(g) EXCEPT !.fired.left = "wall"]
               ELSE IF check_objects_hit(c.x - 1, c.y, bx, by, g.star_indices)
                 THEN [left_star(g) EXCEPT !.fired.left = "star"]
               ELSE IF check_objects_hit(c.x - 1, c.y, bx, by, g.hole_indices)
                 THEN [left_hole(g) EXCEPT !.fired.left = "hole"]
               ELSE IF check_objects_hit(c.x - 1, c.y, bx, by, g.riflector_indices)
                 THEN [left_riflector(g) EXCEPT !.fired.left = "riflector"]
               ELSE [left_move(g) EXCEPT !.fired.left = "move"]
             ELSE [g EXCEPT !.fired.left = "outside"]
    IN consume_slide_left(h)
  ELSE g

\* mutant: the star is taken off the board when it is entered
right_star_consumed(g) ==
  [g EXCEPT !.cursor.x = @ + 1, !.star_points = @ + 1,
            !.star_indices =
               SelectSeq(@, LAMBDA i : i # g.cursor.y * g.board_size.x + g.cursor.x + 1)]

\* Game.cpp:532-533
right_star(g) == [g EXCEPT !.cursor.x = @ + 1, !.star_points = @ + 1]

\* Game.cpp:537-539
right_hole(g) ==
  [g EXCEPT !.cursor.x = @ + 1, !.star_points = @ - 1, !.hole_points = @ + 1]

\* Game.cpp:543-544
right_riflector(g) == [g EXCEPT !.cursor.y = @ - 1, !.cursor.x = @ + 1]

\* mutant: the plain move repeats the deflection of the branch above it
right_move_deflected(g) == [g EXCEPT !.cursor.y = @ - 1, !.cursor.x = @ + 1]

\* Game.cpp:549
right_move(g) == [g EXCEPT !.cursor.x = @ + 1]

\* Game.cpp:555
consume_slide_right(g) == [g EXCEPT !.controls.slide_right = FALSE]

\* Game.cpp:521-556
slide_right(g) ==
  IF g.controls.slide_right THEN
    LET c == g.cursor
        bx == g.board_size.x
        by == g.board_size.y
        h == IF ULt(c.x + 1, bx) THEN
               IF check_collision(c.x + 1, c.y, bx, by, g.wall_indices)
                 THEN [stay(g) EXCEPT !.fired.right = "wall"]
               ELSE IF check_objects_hit(c.x + 1, c.y, bx, by, g.star_indices)
                 THEN [right_star(g) EXCEPT !.fired.right = "star"]
               ELSE IF check_objects_hit(c.x + 1, c.y, bx, by, g.hole_indices)
                 THEN [right_hole(g) EXCEPT !.fired.right = "hole"]
               ELSE IF check_objects_hit(c.x + 1, c.y, bx, by, g.riflector_indices)
                 THEN [right_riflector(g) EXCEPT !.fired.right = "riflector"]
               ELSE [right_move(g) EXCEPT !.fired.right = "move"]
             ELSE [g EXCEPT !.fired.right = "outside"]
    IN consume_slide_right(h)
  ELSE g

\* mutant: the commented-out Game::reset() puts the player back at the start
reset_performed(g) ==
  IF g.controls.reset
    THEN [g EXCEPT !.cursor = [x |-> 0, y |-> 0], !.star_points = 0, !.hole_points = 0]
  ELSE g

\* Game.cpp:559-562  the reset flag is logged; Game::reset() is commented out
reset_stub(g) == IF g.controls.reset THEN g ELSE g

\* mutant: slide_left is processed before slide_down
update_reordered(g) ==
  reset_stub(slide_right(slide_down(slide_left(slide_up(
    [g EXCEPT !.fired = NoneFired, !.handled = << >>])))))

\* mutant: the game is over once the cursor is on the goal cell
update_slides_goal_terminal(g) ==
  IF g.cursor = [x |-> GoalIndex % g.board_size.x, y |-> GoalIndex \div g.board_size.x]
    THEN [g EXCEPT !.fired = NoneFired, !.handled = << >>]
  ELSE reset_stub(slide_right(slide_left(slide_down(slide_up(
         [g EXCEPT !.fired = NoneFired, !.handled = << >>])))))

\* Game.cpp:412-562  the slide processing and the reset stub of one tick
update_slides(g) ==
  reset_stub(slide_right(slide_left(slide_down(slide_up(
    [g EXCEPT !.fired = NoneFired, !.handled = << >>])))))

(* A rotation built by update is a product Rx(a) * Ry(b) of a rotation about *)
(* the x axis and one about the y axis.  It is represented by the record    *)
(* [w |-> 1, x |-> a, y |-> b] of the two angles, in units of the angle     *)
(* rolled in one unit of elapsed time; w tells a rotation (1) from the      *)
(* zero quaternion (0).  The orientation of a cell is represented by the    *)
(* sequence of the rotations multiplied onto it, the latest first.          *)

\* Game.cpp:396  glm::quat(1.0f, 0.0f, 0.0f, 0.0f)
identity_quat == [w |-> 1, x |-> 0, y |-> 0]

\* mutant: glm::quat() is the zero quaternion, as it is when glm leaves the
\* default constructor trivial
glm_quat_zero == [w |-> 0, x |-> 0, y |-> 0]

\* Game.cpp:565  glm::quat(), the default-constructed quaternion: the identity
glm_quat == [w |-> 1, x |-> 0, y |-> 0]

\* Game.cpp:396-410  dr for the controls c; amt = elapsed * 1.0f
update_dr(c, elapsed) ==
  LET amt == elapsed IN
  [identity_quat EXCEPT
     !.y = (IF c.roll_left THEN amt ELSE 0) - (IF c.roll_right THEN amt ELSE 0),
     !.x = (IF c.roll_up THEN amt ELSE 0) - (IF c.roll_down THEN amt ELSE 0)]

\* Game.cpp:568,573  glm::normalize(dr * r)
rotated(dr, r) == <<dr>> \o r

\* Game.cpp:566-575  the indices at which the two loops take board_rotations[..],
\* as uint32 values read as ints; the second loop skips the row of the cursor
rotated_indices(g) ==
  {g.cursor.y * g.board_size.x + x : x \in 0 .. (g.board_size.x - 1)}
  \cup {y * g.board_size.x + g.cursor.x :
          y \in {y \in 0 .. (g.board_size.y - 1) : y # g.cursor.y}}

\* Game.cpp:565-576  the Game objects the rotation step can leave.  An index
\* that is not below board_rotations.size() makes operator[] undefined
\* behaviour: either the store lands outside the elements of the vector and
\* the call returns, or the process dies
update_rotations(g, dr) ==
  IF dr # glm_quat THEN
    LET in_range == {i \in rotated_indices(g) : ULt(i, Len(g.board_rotations))}
        stored == [g EXCEPT !.board_rotations =
                     [k \in DOMAIN @ |->
                        IF (k - 1) \in in_range THEN rotated(dr, @[k]) ELSE @[k]]]
    IN IF in_range = rotated_indices(g) THEN {stored}
       ELSE {stored, [stored EXCEPT !.running = FALSE]}
  ELSE {g}

\* Game.cpp:393-577  the Game objects one tick can leave
update(g, elapsed) ==
  update_rotations(update_slides(g), update_dr(g.controls, elapsed))

(* --------------------------- the state machine ------------------------- *)

\* the Game object and the notes about the calls made on it
G == [board_size |-> board_size, board_meshes |-> board_meshes,
      board_rotations |-> board_rotations, wall_indices |-> wall_indices,
      star_indices |-> star_indices, riflector_indices |-> riflector_indices,
      hole_indices |-> hole_indices, cursor |-> cursor,
      star_points |-> star_points, hole_points |-> hole_points,
      controls |-> controls, fired |-> fired, handled |-> handled,
      running |-> running]

\* the window the model explores (see MaxExcursion, MaxPoints)
InWindow(g) ==
  /\ g.cursor.x \in -MaxExcursion .. (board_size.x - 1 + MaxExcursion)
  /\ g.cursor.y \in -MaxExcursion .. (board_size.y - 1 + MaxExcursion)
  /\ g.star_points \in -MaxPoints .. MaxPoints
  /\ g.hole_points \in 0 .. MaxPoints

\* the state right after the constructor, for the dimensions size and the
\* generator output draws
Constructed(size, draws) ==
  LET g == Game(size, draws) IN
  /\ board_size = g.board_size
  /\ board_meshes = g.board_meshes
  /\ board_rotations = g.board_rotations
  /\ wall_indices = g.wall_indices
  /\ star_indices = g.star_indices
  /\ riflector_indices = g.riflector_indices
  /\ hole_indices = g.hole_indices
  /\ cursor = g.cursor
  /\ star_points = g.star_points
  /\ hole_points = g.hole_points
  /\ controls = g.controls
  /\ fired = NoneFired
  /\ handled = << >>
  /\ running = TRUE

Init == Constructed(board_size_init, MtDraws)

\* the call leaves the Game object g
Leaves(g) ==
  /\ board_size' = g.board_size
  /\ board_meshes' = g.board_meshes
  /\ board_rotations' = g.board_rotations
  /\ wall_indices' = g.wall_indices
  /\ star_indices' = g.star_indices
  /\ riflector_indices' = g.riflector_indices
  /\ hole_indices' = g.hole_indices
  /\ cursor' = g.cursor
  /\ star_points' = g.star_points
  /\ hole_points' = g.hole_points
  /\ controls' = g.controls
  /\ fired' = g.fired
  /\ handled' = g.handled
  /\ running' = g.running

HandleEvent ==
  /\ running
  /\ \E evt \in Events : Leaves(handle_event(G, evt))

Update ==
  /\ running
  /\ \E elapsed \in Elapsed :
       \E g \in update(G, elapsed) : InWindow(g) /\ Leaves(g)

Next == HandleEvent \/ Update

Spec == Init /\ [][Next]_vars

\* the generator output with the draws of the cells x = 1 .. k of row y
\* replaced by 2, the number of floor_mesh in meshes
ClearedDraws(y, k) ==
  LET cleared == {DrawNo(y * board_size_init.x + x) :
                    x \in {x \in 1 .. k :
                             (y * board_size_init.x + x) \notin FixedCells}}
  IN [n \in DOMAIN MtDraws |-> IF n \in cleared THEN 2 ELSE MtDraws[n]]

\* the Game object constructed on a board with an obstacle-free row segment
InitBoards ==
  \E y \in 0 .. MaxRow : Constructed(board_size_init, ClearedDraws(y, MaxClear))

SpecBoards == InitBoards /\ [][Next]_vars

\* the Game object constructed with other dimensions in board_size, the
\* degenerate ones (no column or no row) included
InitSizes ==
  \E w \in 0 .. MaxSide, h \in 0 .. MaxSide :
    Constructed([x |-> w, y |-> h], MtDraws)

SpecSizes == InitSizes /\ [][Next]_vars

(* ----------------------- vocabulary of the claims ---------------------- *)

\* the cell (x, y) lies on the board
InBoard(p) == p.x \in 0 .. (board_size.x - 1) /\ p.y \in 0 .. (board_size.y - 1)

\* the board cell p is listed in the index vector
CellIn(indices, p) == InBoard(p) /\ Find(indices, p.y * board_size.x + p.x)

\* one cell from p in direction d (up is +y, right is +x)
Dest(d, p) ==
  CASE d = "up" -> [x |-> p.x, y |-> p.y + 1]
    [] d = "down" -> [x |-> p.x, y |-> p.y - 1]
    [] d = "left" -> [x |-> p.x - 1, y |-> p.y]
    [] d = "right" -> [x |-> p.x + 1, y |-> p.y]

Opposite(d) ==
  CASE d = "up" -> "down" [] d = "down" -> "up"
    [] d = "left" -> "right" [] d = "right" -> "left"

\* the cell one step behind p when moving in direction d
Behind(d, p) == Dest(Opposite(d), p)

\* the slide flag of direction d in the controls c
Slide(c, d) ==
  CASE d = "up" -> c.slide_up [] d = "down" -> c.slide_down
    [] d = "left" -> c.slide_left [] d = "right" -> c.slide_right

\* exactly the slide flag of d is set
OnlySlide(c, d) == \A e \in Directions : Slide(c, e) = (e = d)

\* the last call was an update that processed direction d and nothing else
OnlyFired(d) == fired[d] # "none" /\ \A e \in Directions \ {d} : fired[e] = "none"

ScoresUnchanged == star_points' = star_points /\ hole_points' = hole_points

\* the step is a call of update (only update leaves handled empty, which is
\* tested first because it is cheap)
Tick == handled' = << >> /\ Update

(* -------------------------------- claims ------------------------------- *)

\* C1: after any sequence of input events and update ticks from cursor (0,0)
\* the cursor satisfies 0 <= x < width and 0 <= y < height.
CursorInBoard == InBoard(cursor)

\* C2: for each direction, when exactly that slide flag is set and the in-board
\* destination cell is a wall, update leaves the cursor, star_points and
\* hole_points as they were before the tick.
WallBlocks ==
  [][\A d \in Directions :
       (OnlySlide(controls, d) /\ CellIn(wall_indices, Dest(d, cursor)) /\ Update)
         => (cursor' = cursor /\ ScoresUnchanged)]_vars

WallBlocksWitness ==
  \E d \in Directions :
    OnlyFired(d) /\ fired[d] = "wall" /\ CellIn(wall_indices, Dest(d, cursor))

\* C3: for each direction, when exactly that slide flag is set and the in-board
\* destination cell is a star, update puts the cursor on the destination cell,
\* adds exactly 1 to star_points and leaves hole_points unchanged.
StarCollects ==
  [][\A d \in Directions :
       (OnlySlide(controls, d) /\ CellIn(star_indices, Dest(d, cursor)) /\ Update)
         => /\ cursor' = Dest(d, cursor)
            /\ star_points' = star_points + 1
            /\ hole_points' = hole_points]_vars

StarCollectsWitness ==
  \E d \in Directions :
    OnlyFired(d) /\ fired[d] = "star" /\ CellIn(star_indices, cursor)
      /\ star_points = 1

\* C4: hole rule, for every direction: when the destination is on the board
\* and is neither a wall nor a star, and the cell one step behind the cursor
\* (opposite the movement direction) is a hole, the cursor moves to the
\* destination cell, star_points decreases by 1 and hole_points increases by 1.
HoleLookBehind ==
  [][\A d \in Directions :
       (/\ OnlySlide(controls, d)
        /\ InBoard(Dest(d, cursor))
        /\ ~CellIn(wall_indices, Dest(d, cursor))
        /\ ~CellIn(star_indices, Dest(d, cursor))
        /\ CellIn(hole_indices, Behind(d, cursor))
        /\ Update)
         => /\ cursor' = Dest(d, cursor)
            /\ star_points' = star_points - 1
            /\ hole_points' = hole_points + 1]_vars

\* C4 as amended: when the destination is on the board and is neither a wall
\* nor a star, then for down, left and right a hole at the destination moves
\* the cursor to the destination, and for up a hole on the cell behind the
\* cursor (y - 1) moves the cursor back onto that cell; in both cases
\* star_points decreases by 1 and hole_points increases by 1.
HoleAsCoded ==
  [][\A d \in Directions :
       (/\ OnlySlide(controls, d)
        /\ InBoard(Dest(d, cursor))
        /\ ~CellIn(wall_indices, Dest(d, cursor))
        /\ ~CellIn(star_indices, Dest(d, cursor))
        /\ CellIn(hole_indices, IF d = "up" THEN Behind(d, cursor) ELSE Dest(d, cursor))
        /\ Update)
         => /\ cursor' = (IF d = "up" THEN Behind(d, cursor) ELSE Dest(d, cursor))
            /\ star_points' = star_points - 1
            /\ hole_points' = hole_points + 1]_vars

HoleAsCodedWitness ==
  /\ OnlyFired("up") /\ fired["up"] = "hole"
  /\ CellIn(hole_indices, cursor)
  /\ InBoard(Dest("up", Dest("up", cursor)))
  /\ hole_points = 1

\* C5: for each direction, when the slide flag is set and the destination one
\* cell in that direction is outside the board, update leaves the cursor,
\* star_points and hole_points unchanged and still clears the flag.
OutsideIsNoop ==
  [][\A d \in Directions :
       (OnlySlide(controls, d) /\ ~InBoard(Dest(d, cursor)) /\ Update)
         => /\ cursor' = cursor
            /\ ScoresUnchanged
            /\ ~Slide(controls', d)]_vars

\* C6: at the end of every update all four slide flags are false, and update
\* attempts a move in a direction exactly when that direction's flag was set
\* at its start; so with no flag set (no key-down since the last update) the
\* cursor and the scores are left alone.
ConsumedOnce ==
  [][Tick =>
       /\ \A d \in Directions : ~Slide(controls', d)
       /\ \A d \in Directions : (fired'[d] # "none") <=> Slide(controls, d)
       /\ (\A d \in Directions : ~Slide(controls, d))
            => (cursor' = cursor /\ ScoresUnchanged)]_vars

ConsumedOnceWitness ==
  /\ \E d \in Directions : fired[d] \in {"star", "hole", "riflector", "move"}
  /\ \A d \in Directions : ~Slide(controls, d)

\* the controls c with exactly the slide flag of d set (reset as in c)
WithOnlySlide(c, d) ==
  [c EXCEPT !.slide_up = (d = "up"), !.slide_down = (d = "down"),
            !.slide_left = (d = "left"), !.slide_right = (d = "right")]

\* a tick of its own for direction d, when the flag of d was set in c
SingleTick(g, c, d) ==
  IF Slide(c, d) THEN update_slides([g EXCEPT !.controls = WithOnlySlide(c, d)]) ELSE g

\* single-flag ticks in the order up, down, left, right
TicksInOrder(g) ==
  SingleTick(SingleTick(SingleTick(SingleTick(g,
    g.controls, "up"), g.controls, "down"), g.controls, "left"), g.controls, "right")

\* C7: when several slide flags are true at the start of one update, the
\* resulting cursor and scores equal those of single-flag ticks run in the
\* order up, down, left, right, each from the cursor and scores left by the
\* previous one.
ComposesInOrder ==
  [][Tick =>
       LET r == TicksInOrder(G) IN
       /\ cursor' = r.cursor
       /\ star_points' = r.star_points
       /\ hole_points' = r.hole_points]_vars

\* two or more directions moved the cursor in the last update
ComposesInOrderWitness ==
  Cardinality({d \in Directions : fired[d] \in {"star", "hole", "riflector", "move"}}) >= 2

\* the reference deflection table
Deflection(d) ==
  CASE d = "up" -> [x |-> 1, y |-> 0]
    [] d = "down" -> [x |-> 1, y |-> 0]
    [] d = "left" -> [x |-> 0, y |-> 1]
    [] d = "right" -> [x |-> 0, y |-> -1]

\* C8: when the destination is a reflector and no earlier rule matches (the
\* destination is neither wall nor star, the cell behind is no hole), the
\* cursor moves to the destination and is offset by one more cell: up +1 x,
\* down +1 x, left +1 y, right -1 y (modulo 2^32: -1 is 0xFFFFFFFF); the
\* scores are unchanged.
ReflectorTable ==
  [][\A d \in Directions :
       (/\ OnlySlide(controls, d)
        /\ CellIn(riflector_indices, Dest(d, cursor))
        /\ ~CellIn(wall_indices, Dest(d, cursor))
        /\ ~CellIn(star_indices, Dest(d, cursor))
        /\ ~CellIn(hole_indices, Behind(d, cursor))
        /\ Update)
         => /\ cursor'.x = Dest(d, cursor).x + Deflection(d).x
            /\ cursor'.y = Dest(d, cursor).y + Deflection(d).y
            /\ ScoresUnchanged]_vars

ReflectorTableWitness ==
  /\ OnlyFired("down") /\ fired["down"] = "riflector"
  /\ CellIn(riflector_indices, [x |-> cursor.x - 1, y |-> cursor.y])

\* C9: a change of the reset flag by handle_event changes nothing else, and
\* what a tick does to the board, the index vectors, the cursor, the scores
\* and the slide flags is the same with the reset flag set as with it clear.
ResetInert ==
  [][/\ (controls'.reset # controls.reset)
          => /\ UNCHANGED <<board_meshes, wall_indices, star_indices,
                            riflector_indices, hole_indices, cursor,
                            star_points, hole_points>>
             /\ \A d \in Directions : Slide(controls', d) = Slide(controls, d)
     /\ Tick =>
          LET r == update_slides([G EXCEPT !.controls.reset = ~@]) IN
          /\ cursor' = r.cursor
          /\ star_points' = r.star_points
          /\ hole_points' = r.hole_points
          /\ \A d \in Directions : Slide(controls', d) = Slide(r.controls, d)
          /\ controls'.reset = controls.reset
          /\ UNCHANGED <<board_meshes, wall_indices, star_indices,
                         riflector_indices, hole_indices>>]_vars

\* a tick has moved the cursor while the reset flag was set
ResetInertWitness ==
  /\ controls.reset
  /\ \E d \in Directions : fired[d] \in {"star", "hole", "riflector", "move"}
  /\ cursor # [x |-> 0, y |-> 0]

\* no index vector lists a cell x = 1 .. k of row y
FreeRow(y, k) ==
  \A x \in 1 .. k :
    LET p == [x |-> x, y |-> y] IN
    /\ InBoard(p)
    /\ ~CellIn(wall_indices, p) /\ ~CellIn(star_indices, p)
    /\ ~CellIn(hole_indices, p) /\ ~CellIn(riflector_indices, p)

\* k consecutive ticks, each after a key-down of the right arrow alone
RECURSIVE RightTicks(_, _)
RightTicks(g, k) ==
  IF k = 0 THEN g
  ELSE update_slides([RightTicks(g, k - 1) EXCEPT !.controls = WithOnlySlide(@, "right")])

\* C10: from x = 0 on a row whose cells 1 .. k (k < width) are in none of the
\* four index vectors, k consecutive ticks each with only slide_right set
\* leave the cursor at x = k on the same row, with star_points and
\* hole_points unchanged.
ObstacleFreeRun ==
  \A k \in 1 .. (board_size.x - 1) :
    (cursor.x = 0 /\ FreeRow(cursor.y, k)) =>
      LET r == RightTicks(G, k) IN
      /\ r.cursor = [x |-> k, y |-> cursor.y]
      /\ r.star_points = star_points
      /\ r.hole_points = hole_points

\* the fourth cell of an obstacle-free row, entered by a slide to the right
\* with the scores still those of the start
ObstacleFreeRunWitness ==
  /\ cursor.x = 4 /\ FreeRow(cursor.y, 4)
  /\ OnlyFired("right") /\ fired["right"] = "move"
  /\ star_points = 0 /\ hole_points = 0

\* the index vector that lists the cells of a kind of mesh (none for the
\* floor, the goal and the collectible)
RegistryOf(mesh) ==
  CASE mesh = "wall_mesh" -> wall_indices
    [] mesh = "starpoint_mesh" -> star_indices
    [] mesh = "hole_mesh" -> hole_indices
    [] mesh = "riflector_mesh" -> riflector_indices
    [] OTHER -> << >>

RegisteredKinds == {"wall_mesh", "starpoint_mesh", "hole_mesh", "riflector_mesh"}

\* C11: on the constructed board index 0 is floor, index 39 is the goal and
\* index 42 is the collectible, and none of the three is in any index set;
\* every other index is in the wall, star, hole or reflector set exactly when
\* its cell is of that kind, and in no set when its cell is floor; no index is
\* in more than one set.
RegistryMatchesBoard ==
  LET W == {wall_indices[n] : n \in DOMAIN wall_indices}
      S == {star_indices[n] : n \in DOMAIN star_indices}
      H == {hole_indices[n] : n \in DOMAIN hole_indices}
      R == {riflector_indices[n] : n \in DOMAIN riflector_indices}
  IN /\ Len(board_meshes) = 64
     /\ board_meshes[0 + 1] = "floor_mesh"
     /\ board_meshes[39 + 1] = "goal_mesh"
     /\ board_meshes[42 + 1] = "gummy_mesh"
     /\ {0, 39, 42} \cap (W \cup S \cup H \cup R) = {}
     /\ \A i \in (0 .. 63) \ {0, 39, 42} :
          /\ board_meshes[i + 1] \in RegisteredKinds \cup {"floor_mesh"}
          /\ (i \in W) <=> (board_meshes[i + 1] = "wall_mesh")
          /\ (i \in S) <=> (board_meshes[i + 1] = "starpoint_mesh")
          /\ (i \in H) <=> (board_meshes[i + 1] = "hole_mesh")
          /\ (i \in R) <=> (board_meshes[i + 1] = "riflector_mesh")
     /\ W \cap S = {} /\ W \cap H = {} /\ W \cap R = {}
     /\ S \cap H = {} /\ S \cap R = {} /\ H \cap R = {}
     /\ (W \cup S \cup H \cup R) \subseteq 0 .. 63

\* the state the constructor leaves, every kind of cell being on the board
RegistryMatchesBoardWitness ==
  /\ cursor = [x |-> 0, y |-> 0] /\ fired = NoneFired /\ handled = << >>
  /\ star_points = 0 /\ hole_points = 0
  /\ \A k \in RegisteredKinds : RegistryOf(k) # << >>
  /\ \E i \in 1 .. 63 : board_meshes[i + 1] = "floor_mesh"

\* a non-repeat key-down of an arrow key
KeyDown(scancode) == [type |-> "SDL_KEYDOWN", repeat |-> FALSE, scancode |-> scancode]

\* the Game objects that feeding the inputs to the Game objects of S can leave;
\* an input is an event of Events or a tick with its elapsed time
RECURSIVE Feed(_, _)
Feed(S, inputs) ==
  IF inputs = << >> THEN S
  ELSE LET input == Head(inputs)
           T == IF "elapsed" \in DOMAIN input
                  THEN UNION {update(g, input.elapsed) : g \in S}
                  ELSE {handle_event(g, input) : g \in S}
       IN Feed(T, Tail(inputs))

\* four slides to the right, then three slides up, a tick after each key
RightsThenUps ==
  LET right == KeyDown("SDL_SCANCODE_RIGHT")
      up == KeyDown("SDL_SCANCODE_UP")
      tick == [elapsed |-> 1]
  IN <<right, tick, right, tick, right, tick, right, tick,
       up, tick, up, tick, up, tick>>

\* the state is the one the constructor leaves
JustConstructed ==
  /\ cursor = [x |-> 0, y |-> 0] /\ star_points = 0 /\ hole_points = 0
  /\ fired = NoneFired /\ handled = << >>
  /\ \A f \in DOMAIN controls : ~controls[f]

\* C12: a run is determined by its inputs: in every state of a run every
\* event and every tick has exactly one outcome, so two executions fed the
\* same events and ticks agree on board, cursor and scores after every step;
\* in particular four slides right then three slides up from the constructed
\* state have one outcome.
Deterministic ==
  /\ running
  /\ \A elapsed \in Elapsed : Cardinality(update(G, elapsed)) = 1
  /\ JustConstructed => Cardinality(Feed({G}, RightsThenUps)) = 1

\* the state at the end of four slides right and three slides up
DeterministicWitness ==
  /\ cursor = [x |-> 4, y |-> -1]
  /\ OnlyFired("up") /\ fired["up"] = "wall"
  /\ star_points = 0 /\ hole_points = 0

HoleCell(d, p, as_coded) == IF as_coded /\ d # "up" THEN Dest(d, p) ELSE Behind(d, p)

HoleTarget(d, p, as_coded) == IF as_coded /\ d = "up" THEN Behind(d, p) ELSE Dest(d, p)

\* the first rule that matches, in the order wall, star, hole, reflector, plain
FirstRule(d, p, as_coded) ==
  IF CellIn(wall_indices, Dest(d, p)) THEN "wall"
  ELSE IF CellIn(star_indices, Dest(d, p)) THEN "star"
  ELSE IF CellIn(hole_indices, HoleCell(d, p, as_coded)) THEN "hole"
  ELSE IF CellIn(riflector_indices, Dest(d, p)) THEN "riflector"
  ELSE "move"

\* what a rule does to the cursor at p and to the two scores
RuleEffect(rule, d, p, as_coded) ==
  CASE rule = "wall" -> [cursor |-> p, star |-> 0, hole |-> 0]
    [] rule = "star" -> [cursor |-> Dest(d, p), star |-> 1, hole |-> 0]
    [] rule = "hole" -> [cursor |-> HoleTarget(d, p, as_coded), star |-> -1, hole |-> 1]
    [] rule = "riflector" ->
         [cursor |-> [x |-> Dest(d, p).x + Deflection(d).x,
                      y |-> Dest(d, p).y + Deflection(d).y],
          star |-> 0, hole |-> 0]
    [] rule = "move" -> [cursor |-> Dest(d, p), star |-> 0, hole |-> 0]

\* a slide step in direction d from p took the first matching rule and had
\* the effect of that rule alone
FollowsRule(d, p, as_coded, branch, cursor_after, star_gain, hole_gain) ==
  LET rule == FirstRule(d, p, as_coded)
      e == RuleEffect(rule, d, p, as_coded)
  IN /\ branch = rule
     /\ cursor_after = e.cursor
     /\ star_gain = e.star
     /\ hole_gain = e.hole

\* C14: for every in-bounds slide step exactly one of the five rules is
\* applied, the first that matches in the order wall, star, hole (the cell
\* behind the cursor is a hole), reflector, plain move.
FirstMatchingRule ==
  [][\A d \in Directions :
       (OnlySlide(controls, d) /\ InBoard(Dest(d, cursor)) /\ Update)
         => FollowsRule(d, cursor, FALSE, fired'[d], cursor',
                        star_points' - star_points, hole_points' - hole_points)]_vars

\* the positions of the board
BoardCells ==
  {[x |-> x, y |-> y] : x \in 0 .. (board_size.x - 1), y \in 0 .. (board_size.y - 1)}

\* C14 as amended: for every in-bounds slide step exactly one of the five
\* rules is applied, the first that matches in the order wall, star, hole,
\* reflector, plain move, where the hole rule matches on the cell behind the
\* cursor when moving up and on the destination cell when moving down, left
\* or right.  This holds of every step taken, and of the resolver at every
\* position of the board: in particular moving up with a star at the
\* destination and a hole behind applies only the star rule, and moving up
\* with a reflector at the destination and a hole behind applies only the
\* hole rule (no deflection).
FirstMatchingRuleAsCoded ==
  [][/\ JustConstructed =>
          \A d \in Directions : \A p \in BoardCells :
            InBoard(Dest(d, p)) =>
              LET r == update_slides([G EXCEPT !.cursor = p,
                                               !.controls = WithOnlySlide(@, d)])
              IN FollowsRule(d, p, TRUE, r.fired[d], r.cursor,
                             r.star_points - star_points,
                             r.hole_points - hole_points)
     /\ \A d \in Directions :
          (OnlySlide(controls, d) /\ InBoard(Dest(d, cursor)) /\ Update)
            => FollowsRule(d, cursor, TRUE, fired'[d], cursor',
                           star_points' - star_points,
                           hole_points' - hole_points)]_vars

\* a slide up with a reflector at the destination and a hole behind has
\* applied the hole rule
FirstMatchingRuleAsCodedWitness ==
  /\ OnlyFired("up") /\ fired["up"] = "hole"
  /\ CellIn(hole_indices, cursor)
  /\ CellIn(riflector_indices, [x |-> cursor.x, y |-> cursor.y + 2])

\* the mesh of the board cell p
MeshAt(meshes_of_board, p) == meshes_of_board[p.y * board_size.x + p.x + 1]

\* C15: no step of handle_event or update changes the cell kinds of the board
\* or an index set; so a star that is entered stays a star and awards +1
\* star_points on every entry, and a hole stays a hole and penalises on
\* every move that triggers it.
BoardReadOnly ==
  [][/\ UNCHANGED <<board_size, board_meshes, wall_indices, star_indices,
                     hole_indices, riflector_indices>>
     /\ \A d \in Directions :
          (OnlySlide(controls, d) /\ Tick) =>
            /\ CellIn(star_indices, Dest(d, cursor)) =>
                  /\ cursor' = Dest(d, cursor)
                  /\ CellIn(star_indices', cursor')
                  /\ MeshAt(board_meshes', cursor') = "starpoint_mesh"
                  /\ star_points' = star_points + 1
                  /\ hole_points' = hole_points
            /\ (fired'[d] = "hole") =>
                  /\ star_points' = star_points - 1
                  /\ hole_points' = hole_points + 1
                  /\ InBoard(cursor') =>
                        /\ CellIn(hole_indices', cursor')
                        /\ MeshAt(board_meshes', cursor') = "hole_mesh"]_vars

\* a star entered once more after a star and a hole were entered before
BoardReadOnlyWitness ==
  /\ \E d \in Directions : OnlyFired(d) /\ fired[d] = "star"
  /\ CellIn(star_indices, cursor)
  /\ star_points = 1 /\ hole_points = 1

\* C16: a call of handle_event leaves the cursor, star_points, hole_points,
\* the board, the index sets and the orientations unchanged, whatever the
\* event; the cursor and the scores change only in a call of update.
EventsOnlySetFlags ==
  [][/\ (handled' # << >>) =>
          UNCHANGED <<cursor, star_points, hole_points, board_size, board_meshes,
                      wall_indices, star_indices, hole_indices,
                      riflector_indices, board_rotations>>
     /\ (cursor' # cursor \/ star_points' # star_points \/ hole_points' # hole_points)
          => Tick]_vars

\* a handled event has set a slide flag away from the start, the scores
\* being other than zero
EventsOnlySetFlagsWitness ==
  /\ handled = <<TRUE>>
  /\ \E d \in Directions : Slide(controls, d)
  /\ cursor # [x |-> 0, y |-> 0]
  /\ star_points # 0 /\ hole_points # 0

ArrowOf(d) ==
  CASE d = "up" -> "SDL_SCANCODE_UP" [] d = "down" -> "SDL_SCANCODE_DOWN"
    [] d = "left" -> "SDL_SCANCODE_LEFT" [] d = "right" -> "SDL_SCANCODE_RIGHT"

\* a key-up or an auto-repeat key-down of an arrow key
ArrowUpOrRepeat(evt) ==
  /\ \E d \in Directions : evt.scancode = ArrowOf(d)
  /\ evt.type = "SDL_KEYUP" \/ (evt.type = "SDL_KEYDOWN" /\ evt.repeat)

\* C17: whatever the state and the event, handle_event changes a slide flag
\* only by setting it, and only on a non-repeat key-down of the arrow key of
\* that flag (so a flag becomes false only in update); a key-up and an
\* auto-repeat key-down of an arrow key leave all slide flags unchanged and
\* are reported as not handled.
SlideFlagEdges ==
  \A evt \in Events :
    LET r == handle_event(G, evt) IN
    /\ \A d \in Directions :
         (Slide(r.controls, d) # Slide(controls, d))
           => (Slide(r.controls, d) /\ evt = KeyDown(ArrowOf(d)))
    /\ ArrowUpOrRepeat(evt)
         => /\ \A d \in Directions : Slide(r.controls, d) = Slide(controls, d)
            /\ r.handled = <<FALSE>>

\* an event was reported as not handled and the slide flag set before it is
\* still set
SlideFlagEdgesWitness ==
  /\ handled = <<FALSE>>
  /\ \E d \in Directions : Slide(controls, d)

\* the values the four roll flags can have
RollFlags == [roll_left : BOOLEAN, roll_right : BOOLEAN, roll_up : BOOLEAN,
              roll_down : BOOLEAN]

\* the Game object g with the roll flags roll
WithRoll(g, roll) ==
  [g EXCEPT !.controls.roll_left = roll.roll_left,
            !.controls.roll_right = roll.roll_right,
            !.controls.roll_up = roll.roll_up,
            !.controls.roll_down = roll.roll_down]

\* an orientation field with one identity orientation for every cell
IdentityField == [k \in 1 .. board_size.x * board_size.y |-> << >>]

\* what the Game objects of S show of the movement: whether the game still
\* runs, the cursor, the scores and the slide flags
Movement(S) ==
  {[running |-> g.running, cursor |-> g.cursor, star_points |-> g.star_points,
    hole_points |-> g.hole_points,
    slide |-> [d \in Directions |-> Slide(g.controls, d)]] : g \in S}

HasOrientation(g, p) == (p.y * g.board_size.x + p.x + 1) \in DOMAIN g.board_rotations

OrientationOf(g, p) == g.board_rotations[p.y * g.board_size.x + p.x + 1]

ScoreSteps ==
  [][/\ hole_points >= 0 /\ hole_points' >= hole_points
     /\ star_points + hole_points >= 0
     /\ star_points' + hole_points' >= star_points + hole_points
     /\ \A d \in Directions :
          (OnlySlide(controls, d) /\ Tick) =>
            <<star_points' - star_points, hole_points' - hole_points>>
              \in {<<0, 0>>, <<1, 0>>, <<-1, 1>>}
     /\ Tick =>
          LET steps == Cardinality({d \in Directions : Slide(controls, d)})
              holes == hole_points' - hole_points
              stars == (star_points' + hole_points') - (star_points + hole_points)
          IN holes >= 0 /\ stars >= 0 /\ stars + holes <= steps]_vars

\* star_points alone has become negative, by a hole
ScoreStepsWitness ==
  /\ star_points < 0 /\ hole_points = -star_points
  /\ \E d \in Directions : OnlyFired(d) /\ fired[d] = "hole"

\* C21: after any sequence of events and ticks from the start cell the cursor
\* is never on a cell listed in wall_indices, the cell reached by a reflector
\* deflection or by the hole branch of slide_up included.
CursorOffWalls == ~CellIn(wall_indices, cursor)

\* the position of the cell with the index index
CellOf(index) == [x |-> index % board_size.x, y |-> index \div board_size.x]

\* C22: the goal cell (index 39) and the collectible cell (index 42) are
\* inert: a slide whose destination is one of them is a plain move that
\* leaves the scores unchanged.  There is no terminal state: the game keeps
\* running, and with the cursor on the goal a key-down of an arrow key is
\* still consumed (its flag is set) and the next tick processes it by the
\* rules that hold everywhere else and clears the flag.
GoalInert ==
  [][/\ running'
     /\ \A d \in Directions :
          (OnlySlide(controls, d)
             /\ Dest(d, cursor) \in {CellOf(GoalIndex), CellOf(GummyIndex)} /\ Tick)
            => /\ fired'[d] = "move"
               /\ cursor' = Dest(d, cursor)
               /\ ScoresUnchanged
     /\ (cursor = CellOf(GoalIndex)) =>
          /\ \A d \in Directions :
               LET r == handle_event(G, KeyDown(ArrowOf(d))) IN
               /\ r.handled = <<TRUE>> /\ Slide(r.controls, d)
               /\ \A elapsed \in Elapsed : \A u \in update(r, elapsed) :
                    /\ u.running
                    /\ u.fired[d] # "none" /\ ~Slide(u.controls, d)
                    /\ (OnlySlide(r.controls, d) /\ InBoard(Dest(d, cursor)))
                         => FollowsRule(d, cursor, TRUE, u.fired[d], u.cursor,
                                        u.star_points - star_points,
                                        u.hole_points - hole_points)
          /\ Tick =>
               /\ \A d \in Directions : ~Slide(controls', d)
               /\ \A d \in Directions : (fired'[d] # "none") <=> Slide(controls, d)]_vars

\* a slide up has been processed as a plain move with the cursor on the goal
\* cell, which an earlier slide had reached
GoalInertWitness ==
  /\ OnlyFired("up") /\ fired["up"] = "move"
  /\ Dest("down", cursor) = CellOf(GoalIndex)

\* the Game objects left by the key-downs of the arrow keys of the directions
\* ds, in this order, followed by one tick
KeyDownsThenTick(g, ds, elapsed) ==
  Feed({g}, [i \in 1 .. Len(ds) |-> KeyDown(ArrowOf(ds[i]))] \o <<[elapsed |-> elapsed]>>)

\* C23: key-downs coalesce between ticks.  A second non-repeat key-down for
\* a direction leaves the Game object as the first left it, key-downs for
\* two directions leave the same object in either order of arrival, and a
\* later key-down never clears a pending flag.  So, from the state an
\* update (or the constructor) leaves, key-downs for one direction followed
\* by an update make one attempt in that direction and no other, after
\* which the flag is clear and a further update attempts nothing; and
\* key-downs for two directions followed by an update have both directions
\* attempted in that update.
KeyDownsCoalesce ==
  /\ \A d \in Directions :
       LET once == handle_event(G, KeyDown(ArrowOf(d))) IN
       /\ Slide(once.controls, d)
       /\ handle_event(once, KeyDown(ArrowOf(d))) = once
       /\ \A e \in Directions :
            LET both == handle_event(once, KeyDown(ArrowOf(e))) IN
            /\ Slide(both.controls, d) /\ Slide(both.controls, e)
            /\ both = handle_event(handle_event(G, KeyDown(ArrowOf(e))),
                                   KeyDown(ArrowOf(d)))
  /\ (handled = << >>) =>
       /\ \A d \in Directions : ~Slide(controls, d)
       /\ \A elapsed \in Elapsed : \A d \in Directions :
            /\ \A u \in KeyDownsThenTick(G, <<d, d>>, elapsed) :
                 /\ \A e \in Directions : (u.fired[e] # "none") <=> (e = d)
                 /\ \A e \in Directions : ~Slide(u.controls, e)
                 /\ \A v \in update(u, elapsed) :
                      /\ \A e \in Directions : v.fired[e] = "none"
                      /\ v.cursor = u.cursor
                      /\ v.star_points = u.star_points
                      /\ v.hole_points = u.hole_points
            /\ \A e \in Directions \ {d} :
                 \A u \in KeyDownsThenTick(G, <<d, e, d>>, elapsed) :
                   /\ \A f \in Directions : (u.fired[f] # "none") <=> (f \in {d, e})
                   /\ \A f \in Directions : ~Slide(u.controls, f)

\* one update has attempted two directions and moved the cursor in both
KeyDownsCoalesceWitness ==
  /\ fired["up"] \in {"star", "hole", "riflector", "move"}
  /\ fired["right"] \in {"star", "hole", "riflector", "move"}
  /\ fired["down"] = "none" /\ fired["left"] = "none"
  /\ \A d \in Directions : ~Slide(controls, d)

====
